---- MODULE Spec2Model ----
(***************************************************************************)
(* Model of EmitterRpc (src/src/rpc_server.rs): the register / delete /    *)
(* info handlers over the two concurrent maps `state` and `cell_handles`,  *)
(* the ScanTip cells they create and the CellProcess tasks they spawn.     *)
(*                                                                         *)
(* Handlers run as tasks of a multi-threaded runtime.  Every access to a   *)
(* DashMap is one atomic step; between two such steps of one handler the   *)
(* steps of other handlers and of the spawned tasks may interleave.        *)
(***************************************************************************)
EXTENDS Naturals, Sequences, FiniteSets

\* ---- bounds of the model ----
MaxCalls == 3      \* calls the callers issue in one run
MaxBlock == 2      \* highest block number of the chain

Procs == {"p1", "p2"}   \* concurrent RPC callers
Keys == {"A", "B"}
Blocks == 1..MaxBlock

NoCell == 0        \* Option::None for a ScanTip
NoTask == 0        \* Option::None for a JoinHandle
NoBlock == MaxBlock + 1    \* no block number: indexer_tip not fetched, no start argument
NoKey == "none"            \* no search_key argument (info)
Unseen == MaxCalls + 1     \* info's iterator has not reached the key yet

VARIABLES
    state,          \* EmitterRpc.state: key -> ScanTip (cell id) or NoCell
    cell_handles,   \* EmitterRpc.cell_handles: key -> JoinHandle (task id) or NoTask
    cells,          \* heap of ScanTipInner: cell id -> block_number of its IndexerTip
    tasks,          \* spawned CellProcess tasks: task id -> [key, cell, running]
    chainTip,       \* block number the indexer reports (RpcClient side)
    pc,             \* per caller: position inside its current handler
    search_key,     \* per caller: argument search_key
    start,          \* per caller: argument start
    indexer_tip,    \* per caller: local indexer_tip.block_number (NoBlock: not fetched)
    scan_tip,       \* per caller: local scan_tip (cell id) of register
    handle,         \* per caller: local handle (task id) of register / delete
    info_out,       \* per caller: entries collected by info's iterator
    result,         \* per caller: outcome of the current / last call
    calls,          \* calls issued so far
    info_alone      \* per caller, history: no register or delete of another
                    \* caller was in flight during its current / last info

vars == <<state, cell_handles, cells, tasks, chainTip, pc, search_key, start,
          indexer_tip, scan_tip, handle, info_out, result, calls, info_alone>>

shared == <<state, cell_handles, cells, tasks>>

Idle == {"idle", "reg_done", "del_done", "info_done"}
RegInFlight == {"reg_contains", "reg_tip", "reg_header", "reg_insert", "reg_spawn", "reg_handle"}
DelInFlight == {"del_state", "del_handle", "del_abort"}

CellIds == 1..MaxCalls
TaskIds == 1..MaxCalls

TypeOK ==
    /\ state \in [Keys -> CellIds \cup {NoCell}]
    /\ cell_handles \in [Keys -> TaskIds \cup {NoTask}]
    /\ cells \in Seq(Blocks) /\ Len(cells) <= MaxCalls
    /\ Len(tasks) <= MaxCalls
    /\ \A t \in DOMAIN tasks :
          /\ tasks[t].key \in Keys
          /\ tasks[t].cell \in DOMAIN cells
          /\ tasks[t].running \in BOOLEAN
    /\ chainTip \in Blocks
    /\ pc \in [Procs -> Idle \cup RegInFlight \cup DelInFlight \cup {"info_iter"}]
    /\ search_key \in [Procs -> Keys \cup {NoKey}]
    /\ start \in [Procs -> Blocks \cup {NoBlock}]
    /\ indexer_tip \in [Procs -> Blocks \cup {NoBlock}]
    /\ scan_tip \in [Procs -> CellIds \cup {NoCell}]
    /\ handle \in [Procs -> TaskIds \cup {NoTask}]
    /\ info_out \in [Procs -> [Keys -> CellIds \cup {NoCell, Unseen}]]
    /\ result \in [Procs -> {"none", "true", "false", "error", "panic", "list"}]
    /\ calls \in 0..MaxCalls
    /\ info_alone \in [Procs -> BOOLEAN]

Init ==
    /\ state = [k \in Keys |-> NoCell]
    /\ cell_handles = [k \in Keys |-> NoTask]
    /\ cells = << >>
    /\ tasks = << >>
    /\ chainTip = 1
    /\ pc = [p \in Procs |-> "idle"]
    /\ search_key = [p \in Procs |-> NoKey]
    /\ start = [p \in Procs |-> NoBlock]
    /\ indexer_tip = [p \in Procs |-> NoBlock]
    /\ scan_tip = [p \in Procs |-> NoCell]
    /\ handle = [p \in Procs |-> NoTask]
    /\ info_out = [p \in Procs |-> [k \in Keys |-> Unseen]]
    /\ result = [p \in Procs |-> "none"]
    /\ calls = 0
    /\ info_alone = [p \in Procs |-> TRUE]

\* A caller issues its next call: the locals of the previous call are gone.
Enter(p, k, s) ==
    /\ pc[p] \in Idle
    /\ calls < MaxCalls
    /\ calls' = calls + 1
    /\ search_key' = [search_key EXCEPT ![p] = k]
    /\ start' = [start EXCEPT ![p] = s]
    /\ indexer_tip' = [indexer_tip EXCEPT ![p] = NoBlock]
    /\ scan_tip' = [scan_tip EXCEPT ![p] = NoCell]
    /\ handle' = [handle EXCEPT ![p] = NoTask]
    /\ info_out' = [info_out EXCEPT ![p] = [j \in Keys |-> Unseen]]

Return(p, at, r) ==
    /\ pc' = [pc EXCEPT ![p] = at]
    /\ result' = [result EXCEPT ![p] = r]

Goto(p, at) ==
    /\ pc' = [pc EXCEPT ![p] = at]
    /\ result' = [result EXCEPT ![p] = "none"]

\* ------------------------------------------------- the maps' operations
\* DashMap::insert on state: the entry of k becomes c, whatever it was.
InsertState(st, k, c) == [st EXCEPT ![k] = c]

\* DashMap::remove on state: k has no entry afterwards.
BadRemoveState(st, k) == st

RemoveState(st, k) == [st EXCEPT ![k] = NoCell]

\* DashMap::insert on cell_handles: the handle of k becomes t.
InsertHandle(ch, k, t) == [ch EXCEPT ![k] = t]

\* DashMap::remove on cell_handles: k has no handle afterwards.
BadRemoveHandle(ch, k) == ch
RemoveHandle(ch, k) == [ch EXCEPT ![k] = NoTask]

\* Box::new(tip) behind a new Arc<ScanTipInner>: a cell no one else holds.
BadNewCell(cs, b) == Append(cs, IF cs # <<>> THEN cs[Len(cs)] ELSE b)
NewCell(cs, b) == Append(cs, b)

\* tokio::spawn of a CellProcess for key k that owns cell c.
SpawnTask(tk, k, c) == Append(tk, [key |-> k, cell |-> c, running |-> TRUE])

\* JoinHandle::abort on task t.
BadAbortTask(tk, t) == [u \in DOMAIN tk |-> [tk[u] EXCEPT !.running = FALSE]]
AbortTask(tk, t) == [tk EXCEPT ![t].running = FALSE]

\* ------------------------------------------------------------------- calls
\* A register or delete of p begins: it overlaps every info in flight.
Disturb(p) ==
    info_alone' = [q \in Procs |->
                      IF q = p THEN TRUE
                      ELSE IF pc[q] = "info_iter" THEN FALSE
                      ELSE info_alone[q]]

\* The handler asking the chain-data client before looking at the table.
BadRegisterCall(p, k, s) ==
    /\ Enter(p, k, s)
    /\ Disturb(p)
    /\ Goto(p, "reg_tip")
    /\ UNCHANGED <<state, cell_handles, cells, tasks, chainTip>>

\* The server dispatches a register(search_key, start) request to a handler.
RegisterCall(p, k, s) ==
    /\ Enter(p, k, s)
    /\ Disturb(p)
    /\ Goto(p, "reg_contains")
    /\ UNCHANGED <<state, cell_handles, cells, tasks, chainTip>>

\* The server dispatches a delete(search_key) request to a handler.
DeleteCall(p, k) ==
    /\ Enter(p, k, NoBlock)
    /\ Disturb(p)
    /\ Goto(p, "del_state")
    /\ UNCHANGED <<state, cell_handles, cells, tasks, chainTip>>

\* The server dispatches an info() request to a handler.
InfoCall(p) ==
    /\ Enter(p, NoKey, NoBlock)
    /\ info_alone' = [info_alone EXCEPT ![p] =
                         \A q \in Procs \ {p} :
                             pc[q] \notin RegInFlight \cup DelInFlight]
    /\ Goto(p, "info_iter")
    /\ UNCHANGED <<state, cell_handles, cells, tasks, chainTip>>

\* ---------------------------------------------------------------- register
\* self.state.contains_key(&search_key); on a miss the tip request is sent.
BadRegisterContains(p) ==
    /\ pc[p] = "reg_contains"
    /\ Goto(p, "reg_tip")
    /\ UNCHANGED <<state, cell_handles, cells, tasks, chainTip, search_key,
                   start, indexer_tip, scan_tip, handle, info_out, calls,
                   info_alone>>

RegisterContains(p) ==
    /\ pc[p] = "reg_contains"
    /\ IF state[search_key[p]] # NoCell
          THEN Return(p, "reg_done", "false")
          ELSE Goto(p, "reg_tip")
    /\ UNCHANGED <<state, cell_handles, cells, tasks, chainTip, search_key,
                   start, indexer_tip, scan_tip, handle, info_out, calls,
                   info_alone>>

\* get_indexer_tip().await resolves; `?` propagates its error; then the
\* comparison indexer_tip.block_number > start.
BadRegisterTip(p, ok) ==
    /\ pc[p] = "reg_tip"
    /\ IF ~ok
          THEN /\ Return(p, "reg_done", "error")
               /\ UNCHANGED indexer_tip
          ELSE /\ indexer_tip' = [indexer_tip EXCEPT ![p] = chainTip]
               /\ IF chainTip >= start[p]
                     THEN Goto(p, "reg_header")
                     ELSE Return(p, "reg_done", "false")
    /\ UNCHANGED <<state, cell_handles, cells, tasks, chainTip, search_key,
                   start, scan_tip, handle, info_out, calls,
                   info_alone>>

RegisterTip(p, ok) ==
    /\ pc[p] = "reg_tip"
    /\ IF ~ok
          THEN /\ Return(p, "reg_done", "error")
               /\ UNCHANGED indexer_tip
          ELSE /\ indexer_tip' = [indexer_tip EXCEPT ![p] = chainTip]
               /\ IF chainTip > start[p]
                     THEN Goto(p, "reg_header")
                     ELSE Return(p, "reg_done", "false")
    /\ UNCHANGED <<state, cell_handles, cells, tasks, chainTip, search_key,
                   start, scan_tip, handle, info_out, calls,
                   info_alone>>

\* get_header_by_number(start).await resolves; on success the ScanTip is
\* allocated, holding an IndexerTip with block_number = header.inner.number.
BadRegisterHeader(p, ok) ==
    /\ pc[p] = "reg_header"
    /\ IF ~ok
          THEN /\ Return(p, "reg_done", "false")
               /\ UNCHANGED <<cells, scan_tip>>
          ELSE /\ cells' = NewCell(cells, start[p])
               /\ scan_tip' = [scan_tip EXCEPT ![p] = Len(cells) + 1]
               /\ Goto(p, "reg_insert")
    /\ UNCHANGED <<state, cell_handles, tasks, chainTip, search_key, start,
                   indexer_tip, handle, info_out, calls,
                   info_alone>>

RegisterHeader(p, ok) ==
    /\ pc[p] = "reg_header"
    /\ IF ~ok
          THEN /\ Return(p, "reg_done", "error")
               /\ UNCHANGED <<cells, scan_tip>>
          ELSE /\ cells' = NewCell(cells, start[p])
               /\ scan_tip' = [scan_tip EXCEPT ![p] = Len(cells) + 1]
               /\ Goto(p, "reg_insert")
    /\ UNCHANGED <<state, cell_handles, tasks, chainTip, search_key, start,
                   indexer_tip, handle, info_out, calls,
                   info_alone>>

\* self.state.insert(search_key.clone(), scan_tip.clone()): replaces any entry.
RegisterInsertState(p) ==
    /\ pc[p] = "reg_insert"
    /\ state' = InsertState(state, search_key[p], scan_tip[p])
    /\ Goto(p, "reg_spawn")
    /\ UNCHANGED <<cell_handles, cells, tasks, chainTip, search_key, start,
                   indexer_tip, scan_tip, handle, info_out, calls,
                   info_alone>>

\* The spawned task bound to the cell the table holds, not to the call's own.
BadRegisterSpawn(p) ==
    /\ pc[p] = "reg_spawn"
    /\ tasks' = SpawnTask(tasks, search_key[p],
                         IF state[search_key[p]] # NoCell
                           THEN state[search_key[p]]
                           ELSE scan_tip[p])
    /\ handle' = [handle EXCEPT ![p] = Len(tasks) + 1]
    /\ Goto(p, "reg_handle")
    /\ UNCHANGED <<state, cell_handles, cells, chainTip, search_key, start,
                   indexer_tip, scan_tip, info_out, calls,
                   info_alone>>

\* tokio::spawn of cell_process.run(), the CellProcess owning scan_tip.
RegisterSpawn(p) ==
    /\ pc[p] = "reg_spawn"
    /\ tasks' = SpawnTask(tasks, search_key[p], scan_tip[p])
    /\ handle' = [handle EXCEPT ![p] = Len(tasks) + 1]
    /\ Goto(p, "reg_handle")
    /\ UNCHANGED <<state, cell_handles, cells, chainTip, search_key, start,
                   indexer_tip, scan_tip, info_out, calls,
                   info_alone>>

\* self.cell_handles.insert(search_key, handle); return Ok(true).  A handle
\* the insert replaces is dropped, which detaches its task: it keeps running.
RegisterInsertHandle(p) ==
    /\ pc[p] = "reg_handle"
    /\ cell_handles' = InsertHandle(cell_handles, search_key[p], handle[p])
    /\ Return(p, "reg_done", "true")
    /\ scan_tip' = [scan_tip EXCEPT ![p] = NoCell]
    /\ handle' = [handle EXCEPT ![p] = NoTask]
    /\ UNCHANGED <<state, cells, tasks, chainTip, search_key, start,
                   indexer_tip, info_out, calls,
                   info_alone>>

\* ------------------------------------------------------------------ delete
\* self.state.remove(&search_key).is_some()
DeleteRemoveState(p) ==
    /\ pc[p] = "del_state"
    /\ IF state[search_key[p]] # NoCell
          THEN /\ state' = RemoveState(state, search_key[p])
               /\ Goto(p, "del_handle")
          ELSE /\ Return(p, "del_done", "false")
               /\ UNCHANGED state
    /\ UNCHANGED <<cell_handles, cells, tasks, chainTip, search_key, start,
                   indexer_tip, scan_tip, handle, info_out, calls,
                   info_alone>>

\* self.cell_handles.remove(&search_key).unwrap(): panics on None.
DeleteRemoveHandle(p) ==
    /\ pc[p] = "del_handle"
    /\ IF cell_handles[search_key[p]] = NoTask
          THEN /\ Return(p, "del_done", "panic")
               /\ UNCHANGED <<cell_handles, handle>>
          ELSE /\ handle' = [handle EXCEPT ![p] = cell_handles[search_key[p]]]
               /\ cell_handles' = RemoveHandle(cell_handles, search_key[p])
               /\ Goto(p, "del_abort")
    /\ UNCHANGED <<state, cells, tasks, chainTip, search_key, start,
                   indexer_tip, scan_tip, info_out, calls,
                   info_alone>>

\* handle.1.abort(); return Ok(true)
DeleteAbort(p) ==
    /\ pc[p] = "del_abort"
    /\ tasks' = AbortTask(tasks, handle[p])
    /\ Return(p, "del_done", "true")
    /\ handle' = [handle EXCEPT ![p] = NoTask]
    /\ UNCHANGED <<state, cell_handles, cells, chainTip, search_key, start,
                   indexer_tip, scan_tip, info_out, calls,
                   info_alone>>

\* -------------------------------------------------------------------- info
\* self.state.iter(): the iterator locks one shard at a time, so the entries
\* are read one after the other, in the map's order.
\* .map(|kv| (kv.key().clone(), kv.value().clone())) on the next entry
BadInfoNext(p, k) ==
    /\ pc[p] = "info_iter"
    /\ info_out[p][k] = Unseen
    /\ info_out' = [info_out EXCEPT ![p][k] = state[k]]
    /\ IF \A j \in Keys \ {k} : info_out[p][j] # Unseen
          THEN Return(p, "info_done", "list")
          ELSE Goto(p, "info_iter")
    /\ state' = RemoveState(state, k)
    /\ UNCHANGED <<cell_handles, cells, tasks, chainTip, search_key,
                   start, indexer_tip, scan_tip, handle, calls,
                   info_alone>>

InfoNext(p, k) ==
    /\ pc[p] = "info_iter"
    /\ info_out[p][k] = Unseen
    /\ info_out' = [info_out EXCEPT ![p][k] = state[k]]
    /\ IF \A j \in Keys \ {k} : info_out[p][j] # Unseen
          THEN Return(p, "info_done", "list")
          ELSE Goto(p, "info_iter")
    /\ UNCHANGED <<state, cell_handles, cells, tasks, chainTip, search_key,
                   start, indexer_tip, scan_tip, handle, calls,
                   info_alone>>

\* ------------------------------------------------------------- environment
\* A running CellProcess publishes a further tip into the ScanTip it owns.
WatcherAdvance(t) ==
    /\ t \in DOMAIN tasks
    /\ tasks[t].running
    /\ cells[tasks[t].cell] < chainTip
    /\ cells' = [cells EXCEPT ![tasks[t].cell] = @ + 1]
    /\ UNCHANGED <<state, cell_handles, tasks, chainTip, pc, search_key, start,
                   indexer_tip, scan_tip, handle, info_out, result, calls,
                   info_alone>>

\* The chain grows by one block.
ChainAdvance ==
    /\ chainTip < MaxBlock
    /\ chainTip' = chainTip + 1
    /\ UNCHANGED <<state, cell_handles, cells, tasks, pc, search_key, start,
                   indexer_tip, scan_tip, handle, info_out, result, calls,
                   info_alone>>

Next ==
    \/ \E p \in Procs, k \in Keys, s \in Blocks : RegisterCall(p, k, s)
    \/ \E p \in Procs, k \in Keys : DeleteCall(p, k)
    \/ \E p \in Procs : InfoCall(p)
    \/ \E p \in Procs : RegisterContains(p)
    \/ \E p \in Procs, ok \in BOOLEAN : RegisterTip(p, ok)
    \/ \E p \in Procs, ok \in BOOLEAN : RegisterHeader(p, ok)
    \/ \E p \in Procs : RegisterInsertState(p)
    \/ \E p \in Procs : RegisterSpawn(p)
    \/ \E p \in Procs : RegisterInsertHandle(p)
    \/ \E p \in Procs : DeleteRemoveState(p)
    \/ \E p \in Procs : DeleteRemoveHandle(p)
    \/ \E p \in Procs : DeleteAbort(p)
    \/ \E p \in Procs, k \in Keys : InfoNext(p, k)
    \/ \E t \in TaskIds : WatcherAdvance(t)
    \/ ChainAdvance

Spec == Init /\ [][Next]_vars

\* ------------------------------------------------------------ vocabulary
InFlight(p) == pc[p] \in RegInFlight \cup DelInFlight \cup {"info_iter"}
Registering(q, k) == pc[q] \in RegInFlight /\ search_key[q] = k
Running(k) == {t \in DOMAIN tasks : tasks[t].key = k /\ tasks[t].running}
\* A register call that got both lookups answered with start below the tip.
LookedUpBelowTip(p) ==
    /\ pc[p] = "reg_done"
    /\ result[p] # "error"
    /\ indexer_tip[p] # NoBlock
    /\ indexer_tip[p] > start[p]

\* ------------------------------------------------------------------ C1
\* C1: when the only two calls of a run are register(k, s1) and
\* register(k, s2), both with their start block below the tip and all
\* lookups answered, exactly one of them returns true and the other false
\* (two calls that do not overlap already behave so; the claim is about
\* the two that overlap).
C1_ExactlyOneRegisterWins ==
    \A p \in Procs : \A q \in Procs \ {p} :
        ( /\ calls = 2
          /\ search_key[p] = search_key[q]
          /\ LookedUpBelowTip(p)
          /\ LookedUpBelowTip(q) )
        => ( \/ result[p] = "true" /\ result[q] = "false"
             \/ result[p] = "false" /\ result[q] = "true" )

\* ------------------------------------------------------------------ C2
\* C2: in every reachable state each key has at most one running
\* (spawned and not aborted) Watcher task.
C2_AtMostOneWatcherPerKey ==
    \A k \in Keys : Cardinality(Running(k)) <= 1

\* ------------------------------------------------------------------ C3
\* C3: at the moment delete(k) returns true, with no register(k) in flight
\* (so that no later register(k) has returned true), no Watcher task ever
\* spawned for k is still running.
C3_NoWatcherAfterDelete ==
    [][\A p \in Procs :
          ( /\ pc[p] = "del_abort"
            /\ pc'[p] = "del_done"
            /\ result'[p] = "true"
            /\ \A q \in Procs \ {p} : ~Registering(q, search_key[p]) )
          => \A t \in DOMAIN tasks' :
                 tasks'[t].key = search_key[p] => ~tasks'[t].running]_vars

\* ------------------------------------------------------------------ C4
\* C4: delete never fails: whenever delete has removed k from the
\* registration table, the handle map holds a handle for k when delete looks
\* it up, and delete completes with a boolean.
C4_DeleteNeverFails ==
    \A p \in Procs :
        /\ pc[p] = "del_done" => result[p] \in {"true", "false"}

\* ------------------------------------------------------------------ C5
\* C5: in every reachable state a handle for k is stored in the handle map
\* if and only if k is present in the registration table.
C5_HandleIffRegistered ==
    \A k \in Keys : (cell_handles[k] # NoTask) <=> (state[k] # NoCell)

\* ------------------------------------------------------------------ C6
\* C6: a register whose tip lookup answers a tip not above its start block
\* (start >= tip, equality included) returns false on that step, and neither
\* that step nor the contains_key step before it inserts into the registration
\* table or the handle map, allocates a cell or spawns a Watcher.
C6_AtOrAboveTipRegistersNothing ==
    [][\A p \in Procs :
          /\ ( /\ pc[p] = "reg_tip"
               /\ indexer_tip'[p] # NoBlock
               /\ start[p] >= indexer_tip'[p] )
             => ( /\ pc'[p] = "reg_done"
                  /\ result'[p] = "false"
                  /\ UNCHANGED shared )
          /\ (pc[p] = "reg_contains" /\ pc'[p] = "reg_tip") => UNCHANGED shared]_vars

C6_Witness ==
    \E p \in Procs :
        /\ pc[p] = "reg_done"
        /\ result[p] = "false"
        /\ indexer_tip[p] # NoBlock
        /\ start[p] = indexer_tip[p]

\* ------------------------------------------------------------------ C7
\* C7: a register step on which the tip lookup or the header lookup fails
\* returns the error outcome, and no step of that call (the contains_key
\* check, the answered tip lookup, the failing lookup) changes the
\* registration table, the handle map, the cells or the Watcher tasks.
C7_LookupFailureIsError ==
    [][\A p \in Procs :
          /\ ( \/ pc[p] = "reg_tip" /\ pc'[p] = "reg_done" /\ indexer_tip'[p] = NoBlock
               \/ pc[p] = "reg_header" /\ pc'[p] = "reg_done" )
             => (result'[p] = "error" /\ UNCHANGED shared)
          /\ ( \/ pc[p] = "reg_contains" /\ pc'[p] = "reg_tip"
               \/ pc[p] = "reg_tip" /\ pc'[p] = "reg_header" )
             => UNCHANGED shared]_vars

C7_Witness ==
    \E p \in Procs : \E q \in Procs :
        /\ pc[p] = "reg_done" /\ result[p] = "error" /\ indexer_tip[p] # NoBlock
        /\ pc[q] = "reg_done" /\ result[q] = "error" /\ indexer_tip[q] = NoBlock

\* ------------------------------------------------------------------ C8
\* C8: a register(k, s) that finds k in the registration table returns
\* false, not an error, on that very step, and leaves the table, the handle
\* map, every cell and every Watcher task as they were.
C8_AlreadyRegisteredIsNoOp ==
    [][\A p \in Procs :
          ( /\ pc[p] = "reg_contains"
            /\ pc'[p] # "reg_contains"
            /\ state[search_key[p]] # NoCell )
          => ( /\ pc'[p] = "reg_done"
               /\ result'[p] = "false"
               /\ UNCHANGED shared )]_vars

C8_Witness ==
    \E p \in Procs :
        /\ pc[p] = "reg_done"
        /\ result[p] = "false"
        /\ indexer_tip[p] = NoBlock
        /\ state[search_key[p]] # NoCell
        /\ cell_handles[search_key[p]] # NoTask
        /\ Cardinality(Running(search_key[p])) = 1

\* ------------------------------------------------------------------ C9
\* C9: on the step register(k, s) returns true, if the Watcher has not yet
\* advanced the cell this call seeded, the registration table holds an entry
\* for k whose tip block number is s (what an info() issued right then
\* reads); and no entry of the table ever refers to a cell without a tip.
C9_InfoShowsSeedAfterRegister ==
    [][\A p \in Procs :
          /\ ( /\ pc[p] = "reg_handle"
               /\ pc'[p] = "reg_done"
               /\ result'[p] = "true"
               /\ cells'[scan_tip[p]] = start[p] )
             => ( /\ state'[search_key[p]] # NoCell
                  /\ cells'[state'[search_key[p]]] = start[p] )
          /\ \A k \in Keys : state'[k] # NoCell => state'[k] \in DOMAIN cells']_vars

\* ----------------------------------------------------------------- C10
\* C10: delete(k) returns true exactly when its removal found k in the
\* registration table and false otherwise; and when it returns true with no
\* register(k) in flight, k is absent from the table and the handle map.
C10_DeleteReportsRemoval ==
    [][\A p \in Procs :
          /\ (pc[p] \in {"del_handle", "del_abort"} /\ pc'[p] = "del_done")
             => result'[p] = "true"
          /\ (pc[p] = "del_state" /\ pc'[p] = "del_done")
             => (result'[p] = "false" /\ state[search_key[p]] = NoCell)
          /\ (pc[p] = "del_state" /\ pc'[p] = "del_handle")
             => state[search_key[p]] # NoCell
          /\ ( /\ pc[p] = "del_abort"
               /\ pc'[p] = "del_done"
               /\ \A q \in Procs \ {p} : ~Registering(q, search_key[p]) )
             => ( /\ state'[search_key[p]] = NoCell
                  /\ cell_handles'[search_key[p]] = NoTask )]_vars

\* ----------------------------------------------------- handlers run alone
\* The shared part of a state, with the outcome of the call run on it.
Here == [state |-> state, cell_handles |-> cell_handles, cells |-> cells,
         tasks |-> tasks, result |-> "none"]

\* delete(k) run from S with no step of anyone else in between: the steps
\* DeleteRemoveState, DeleteRemoveHandle, DeleteAbort one after the other.
DeleteRun(S, k) ==
    IF S.state[k] = NoCell
      THEN [S EXCEPT !.result = "false"]
      ELSE IF S.cell_handles[k] = NoTask
             THEN [S EXCEPT !.state = RemoveState(S.state, k),
                            !.result = "panic"]
             ELSE [S EXCEPT !.state = RemoveState(S.state, k),
                            !.cell_handles = RemoveHandle(S.cell_handles, k),
                            !.tasks = AbortTask(S.tasks, S.cell_handles[k]),
                            !.result = "true"]

\* No register ever inserted k: every insert is followed by a spawn for k.
NeverRegistered(k) ==
    /\ \A t \in DOMAIN tasks : tasks[t].key # k
    /\ \A q \in Procs : ~Registering(q, k)

SameShared(S, T) ==
    /\ S.state = T.state
    /\ S.cell_handles = T.cell_handles
    /\ S.cells = T.cells
    /\ S.tasks = T.tasks

\* ----------------------------------------------------------------- C11
\* C11: from every reachable state with no register(k) in flight, delete(k)
\* run twice in a row leaves the registration table, the handle map and the
\* Watcher tasks as delete(k) run once does, and the second run returns
\* false; delete of a key that was never registered returns false and
\* changes nothing.
C11_DeleteIdempotent ==
    \A k \in Keys :
        (\A q \in Procs : ~Registering(q, k))
        => LET once == DeleteRun(Here, k)
               twice == DeleteRun(once, k)
           IN  /\ twice.result = "false"
               /\ SameShared(twice, once)
               /\ NeverRegistered(k)
                  => (once.result = "false" /\ SameShared(once, Here))

\* Two deletes of one key have run, the first found it, the second did not.
C11_Witness ==
    \E p \in Procs : \E q \in Procs \ {p} :
        /\ pc[p] = "del_done" /\ result[p] = "true"
        /\ pc[q] = "del_done" /\ result[q] = "false"
        /\ search_key[p] = search_key[q]
        /\ \A r \in Procs : ~Registering(r, search_key[p])
        /\ ~NeverRegistered(search_key[p])

\* ---------------------------------------------------------------------- C12
\* A step of caller p's info: its dispatch, or the visit of one table entry.
InfoStep(p) ==
    \/ pc[p] \in Idle /\ pc'[p] = "info_iter"
    \/ pc[p] = "info_iter" /\ info_out'[p] # info_out[p]

\* C12: info is purely observational.  No step of an info changes the
\* registration table, the handle map, a tip cell or a watcher; an info only
\* ever ends by returning a list; and an info that no register or delete
\* overlapped returns, for every key, exactly the table's entry for that key:
\* the key's cell when the key is registered, nothing when it is not.
C12_InfoObservational ==
    [][\A p \in Procs :
          /\ InfoStep(p) => /\ shared' = shared
                            /\ pc'[p] \in {"info_iter", "info_done"}
                            /\ pc'[p] = "info_done" => result'[p] = "list"
          /\ (pc[p] = "info_iter" /\ pc'[p] = "info_done" /\ info_alone[p])
               => \A k \in Keys : info_out'[p][k] = state'[k]]_vars

\* An undisturbed info has returned a list with one key in it and one key not.
C12_Witness ==
    \E p \in Procs :
        /\ pc[p] = "info_done"
        /\ result[p] = "list"
        /\ info_alone[p]
        /\ \E k, j \in Keys : info_out[p][k] \in CellIds /\ info_out[p][j] = NoCell

\* ---------------------------------------------------------------------- C13
\* The tip an info reports for a registered key: the value loaded from the
\* cell the table holds for it.
ReportedTip(st, cs, k) == cs[st[k]]

\* A register of key k has returned true and its caller has not moved on.
RegisteredTrue(k) ==
    \E p \in Procs :
        pc[p] = "reg_done" /\ result[p] = "true" /\ search_key[p] = k

\* C13: for every key k, while k stays registered after a register(k) that
\* returned true (no delete has removed it), the tip that info reports for k
\* never decreases from one moment to the next, whatever registers for k
\* interleave; watchers only ever advance their own cell.
C13_ReportedTipNeverDecreases ==
    [][\A k \in Keys :
          (RegisteredTrue(k) /\ state[k] # NoCell /\ state'[k] # NoCell)
          => ReportedTip(state', cells', k) >= ReportedTip(state, cells, k)]_vars

\* ---------------------------------------------------------------------- C14
\* A step taken by a caller (a handler of register, delete or info), as
\* opposed to a step of a watcher or of the chain.
CallerStep == <<pc, info_out>>' # <<pc, info_out>>

\* C14: every tip cell has one writer for its whole life.  No two watcher
\* tasks, running or not, are ever bound to the same cell; a task never
\* changes the cell it is bound to; each spawn binds the new task to a cell
\* created by the spawning call, which no earlier task writes; and no step of
\* register, delete or info changes the value of an existing cell.
C14_OneWriterPerCell ==
    [][/\ \A t, u \in DOMAIN tasks' :
              tasks'[t].cell = tasks'[u].cell => t = u
       /\ \A t \in DOMAIN tasks : tasks'[t].cell = tasks[t].cell
       /\ \A t \in DOMAIN tasks' \ DOMAIN tasks :
              \E p \in Procs : pc[p] = "reg_spawn" /\ tasks'[t].cell = scan_tip[p]
       /\ CallerStep => \A c \in DOMAIN cells : cells'[c] = cells[c]]_vars

\* Two watchers exist, bound to two different cells, and the older cell has
\* been advanced past its seed by its own watcher.
C14_Witness ==
    \E t, u \in DOMAIN tasks :
        /\ t # u
        /\ tasks[t].cell # tasks[u].cell
        /\ \E p \in Procs : pc[p] = "reg_done" /\ result[p] = "true"
        /\ cells[tasks[t].cell] > 1

\* ---------------------------------------------------------------------- C15
\* A step of caller p's register or delete, its dispatch included.
RegDelStep(p) ==
    /\ pc'[p] # pc[p]
    /\ pc[p] # "info_iter"
    /\ pc'[p] # "info_iter"

\* C15: operations on different keys are independent.  Every step of a
\* register(a, s) or delete(a), whatever its outcome and whatever else is in
\* flight, leaves every other key b as it was: b's table entry, b's stored
\* handle, the tip of b's cell, and every watcher of b (none stopped, none
\* started).
C15_OtherKeysUntouched ==
    [][\A p \in Procs :
          RegDelStep(p) =>
            \A b \in Keys \ {search_key'[p]} :
                /\ state'[b] = state[b]
                /\ cell_handles'[b] = cell_handles[b]
                /\ state[b] # NoCell => cells'[state[b]] = cells[state[b]]
                /\ \A t \in DOMAIN tasks : tasks[t].key = b => tasks'[t] = tasks[t]
                /\ \A t \in DOMAIN tasks' \ DOMAIN tasks : tasks'[t].key # b]_vars

\* A delete of one key has returned true while another key is registered,
\* has its handle stored and its watcher running.
C15_Witness ==
    \E p \in Procs : \E b \in Keys :
        /\ pc[p] = "del_done"
        /\ result[p] = "true"
        /\ b # search_key[p]
        /\ state[b] # NoCell
        /\ cell_handles[b] # NoTask
        /\ Running(b) # {}

\* ---------------------------------------------------------------------- C16
\* register(k, s) run from start to end with nothing interleaved, against a
\* chain whose tip is tip and whose lookups succeed.
RegisterRun(S, k, s, tip) ==
    IF S.state[k] # NoCell
      THEN [S EXCEPT !.result = "false"]
      ELSE IF ~(tip > s)
             THEN [S EXCEPT !.result = "false"]
             ELSE LET c == Len(S.cells) + 1
                      t == Len(S.tasks) + 1
                  IN  [S EXCEPT !.cells = NewCell(S.cells, s),
                                !.state = InsertState(S.state, k, c),
                                !.tasks = SpawnTask(S.tasks, k, c),
                                !.cell_handles = InsertHandle(S.cell_handles, k, t),
                                !.result = "true"]

\* Some register or delete on key k is in flight.
CallInFlightOn(k) ==
    \E q \in Procs : pc[q] \in RegInFlight \cup DelInFlight /\ search_key[q] = k

\* C16: the lifecycle of a key returns to Unregistered after delete.  With no
\* other call on k in flight, when delete(k) returns true, a register(k, s)
\* that follows with s below the chain tip and both lookups answered returns
\* true, creates a cell that did not exist before and seeds it at s (neither
\* the deleted registration's cell nor its tip), stores it in the table,
\* spawns one new running watcher bound to it, and the watcher the delete
\* aborted is stopped and bound to another cell.
C16_RegisterAfterDeleteStartsAfresh ==
    \A k \in Keys :
        (state[k] # NoCell /\ cell_handles[k] # NoTask /\ ~CallInFlightOn(k))
        => LET D == DeleteRun(Here, k)
               oldt == cell_handles[k]
               newt == Len(tasks) + 1
           IN  D.result = "true"
               => \A s \in 1..(chainTip - 1) :
                      LET R == RegisterRun(D, k, s, chainTip)
                          newc == R.state[k]
                      IN  /\ R.result = "true"
                          /\ newc \notin DOMAIN cells
                          /\ newc # state[k]
                          /\ R.cells[newc] = s
                          /\ \A c \in DOMAIN cells : R.cells[c] = cells[c]
                          /\ Len(R.tasks) = newt
                          /\ R.tasks[newt] = [key |-> k, cell |-> newc, running |-> TRUE]
                          /\ R.cell_handles[k] = newt
                          /\ ~R.tasks[oldt].running
                          /\ R.tasks[oldt].cell # newc

\* A key was registered, its cell advanced past its seed, deleted with true,
\* and registered again with true: the table holds another cell than the
\* stopped watcher's, seeded below the old cell's tip, with its own running
\* watcher behind the stored handle.
C16_Witness ==
    \E p, q \in Procs : \E t \in DOMAIN tasks :
        LET k == search_key[p] IN
        /\ pc[p] = "reg_done" /\ result[p] = "true"
        /\ pc[q] = "del_done" /\ result[q] = "true" /\ search_key[q] = k
        /\ Len(tasks) = 2
        /\ tasks[t].key = k /\ ~tasks[t].running
        /\ state[k] # NoCell /\ tasks[t].cell # state[k]
        /\ cells[tasks[t].cell] > cells[state[k]]
        /\ cell_handles[k] # NoTask
        /\ tasks[cell_handles[k]] = [key |-> k, cell |-> state[k], running |-> TRUE]

\* ---------------------------------------------------------------------- C17
\* C17: whenever key k has both a table entry and a stored handle, the task
\* behind the stored handle is the one bound to the cell the table holds for
\* k: the cell info exposes is the cell whose writer a delete would stop.
C17_HandleMatchesTableCell ==
    \A k \in Keys :
        (state[k] # NoCell /\ cell_handles[k] # NoTask)
        => tasks[cell_handles[k]].cell = state[k]

\* ---------------------------------------------------------------------- C18
\* No call is in flight: every caller is idle or has returned.
Quiet == \A q \in Procs : pc[q] \in Idle

\* The executions in which calls do not overlap: a call is dispatched only
\* when every earlier call has returned.  Watchers and the chain run freely.
SeqNext ==
    \/ \E p \in Procs, k \in Keys, s \in Blocks : Quiet /\ RegisterCall(p, k, s)
    \/ \E p \in Procs, k \in Keys : Quiet /\ DeleteCall(p, k)
    \/ \E p \in Procs : Quiet /\ InfoCall(p)
    \/ \E p \in Procs : RegisterContains(p)
    \/ \E p \in Procs, ok \in BOOLEAN : RegisterTip(p, ok)
    \/ \E p \in Procs, ok \in BOOLEAN : RegisterHeader(p, ok)
    \/ \E p \in Procs : RegisterInsertState(p)
    \/ \E p \in Procs : RegisterSpawn(p)
    \/ \E p \in Procs : RegisterInsertHandle(p)
    \/ \E p \in Procs : DeleteRemoveState(p)
    \/ \E p \in Procs : DeleteRemoveHandle(p)
    \/ \E p \in Procs : DeleteAbort(p)
    \/ \E p \in Procs, k \in Keys : InfoNext(p, k)
    \/ \E t \in TaskIds : WatcherAdvance(t)
    \/ ChainAdvance

SeqSpec == Init /\ [][SeqNext]_vars

\* C18: when calls do not overlap, after every completed call the keys in
\* the registration table, the keys in the handle map and the keys with a
\* running watcher are the same keys, and each of them has exactly one
\* running watcher.
C18_SequentialMapsAgree ==
    Quiet =>
        \A k \in Keys :
            /\ (state[k] # NoCell) <=> (cell_handles[k] # NoTask)
            /\ (state[k] # NoCell) <=> (Running(k) # {})
            /\ Cardinality(Running(k)) <= 1

\* After a register of each key and a delete of one of them, run one after
\* the other: one key is in both maps with one running watcher, the other
\* is in neither and its watcher is stopped.
C18_Witness ==
    /\ Quiet
    /\ calls = 3
    /\ \E a, b \in Keys :
          /\ state[a] = NoCell /\ cell_handles[a] = NoTask /\ Running(a) = {}
          /\ \E t \in DOMAIN tasks : tasks[t].key = a
          /\ state[b] # NoCell /\ cell_handles[b] # NoTask
          /\ Cardinality(Running(b)) = 1

\* ---------------------------------------------------------------------- C19
\* C19: the outcome checks of register are ordered.  The tip lookup is
\* reached only past a contains_key check that found the key absent, and the
\* header lookup only past a tip lookup answered with a tip above start; an
\* error comes only out of one of the two lookups.  So a register whose key
\* is registered at its contains_key check returns false having asked the
\* chain-data client nothing, and a register whose tip lookup is answered
\* with start at or above the tip returns false without the header lookup,
\* whether or not the client would have failed.
C19_NothingToDoBeforeLookups ==
    [][\A p \in Procs :
          /\ (pc'[p] = "reg_tip" /\ pc[p] # "reg_tip")
             => (pc[p] = "reg_contains" /\ state[search_key[p]] = NoCell)
          /\ (pc'[p] = "reg_header" /\ pc[p] # "reg_header")
             => ( /\ pc[p] = "reg_tip"
                  /\ indexer_tip'[p] # NoBlock
                  /\ indexer_tip'[p] > start[p] )
          /\ (result'[p] = "error" /\ result[p] # "error")
             => pc[p] \in {"reg_tip", "reg_header"}
          /\ (pc[p] = "reg_contains" /\ pc'[p] = "reg_done")
             => (result'[p] = "false" /\ indexer_tip'[p] = NoBlock)
          /\ (pc[p] = "reg_tip" /\ pc'[p] = "reg_done" /\ indexer_tip'[p] # NoBlock)
             => (result'[p] = "false" /\ scan_tip'[p] = NoCell)]_vars

\* One register has returned false at its contains_key check with no lookup
\* made, another has returned false after the tip lookup alone.
C19_Witness ==
    \E p, q \in Procs :
        /\ pc[p] = "reg_done" /\ result[p] = "false"
        /\ indexer_tip[p] = NoBlock /\ state[search_key[p]] # NoCell
        /\ pc[q] = "reg_done" /\ result[q] = "false"
        /\ indexer_tip[q] # NoBlock /\ start[q] >= indexer_tip[q]

====
